---- MODULE Spec2Model ----
(***************************************************************************)
(* Model of rust_gb_rominfo: the Game Boy ROM header reader.               *)
(*                                                                         *)
(*   src/src/rom.rs   Rom::from_file_path, Rom::from_file, the text        *)
(*                    getters and the two checksum validators              *)
(*   src/src/util.rs  bytes_to_utf8_string                                 *)
(*   src/src/main.rs  the stand-alone command line reader                  *)
(*                                                                         *)
(* A byte buffer is a sequence of numbers 0..255.  Rust indexes from 0 and *)
(* TLA+ sequences from 1, so the byte at address a is buf[a + 1] (At).     *)
(***************************************************************************)
EXTENDS Integers, Sequences, FiniteSets, TLC

VARIABLES
    overflow_checks,  \* build profile: TRUE = arithmetic overflow panics (debug), FALSE = wraps (release)
    file,             \* the ROM file: [state, data]
    pc,               \* "start", "loaded", "failed", "exited", "aborted"
    load,             \* the value returned by from_file_path / from_file
    reads,            \* addresses of the buffer that from_file indexed
    call,             \* the last method called on the Rom and what it produced
    main_out          \* what main printed

vars == <<overflow_checks, file, pc, load, reads, call, main_out>>

-----------------------------------------------------------------------------
(* Bounds of the model *)

\* images of 336 .. 336 + MaxExtra bytes are explored
MaxExtra == 2

-----------------------------------------------------------------------------
(* Header address constants, rom.rs lines 16-30 *)

ENTRY_POINT_ADDR == 256
NINTENDO_LOGO_ADDR == 260
TITLE_ADDR == 308
MANUFACTURER_CODE_ADDR == 319
CGB_FLAG_ADDR == 323
NEW_LICENSEE_CODE_ADDR == 324
SGB_FLAG_ADDR == 326
CARTRIDGE_TYPE_ADDR == 327
ROM_SIZE_ADDR == 328
RAM_SIZE_ADDR == 329
DESTINATION_CODE_ADDR == 330
OLD_LICENSEE_CODE_ADDR == 331
MASK_ROM_VERSION_NUMBER_ADDR == 332
HEADER_CHECKSUM_ADDR == 333
GLOBAL_CHECKSUM_ADDR == 334

\* number of values of a u16 and of a u8
U16 == 65536
U8 == 256

Byte == 0 .. 255

At(buf, a) == buf[a + 1]

-----------------------------------------------------------------------------
(* The checksum formulas of the cartridge format, in closed form *)

RECURSIVE SumBytes(_, _, _)
\* sum of the bytes at addresses lo .. hi
SumBytes(buf, lo, hi) ==
    IF lo > hi THEN 0
    ELSE IF lo = hi THEN At(buf, lo)
    ELSE LET mid == (lo + hi) \div 2
         IN  SumBytes(buf, lo, mid) + SumBytes(buf, mid + 1, hi)

\* 0x0134 .. 0x014C: 25 bytes, each subtracted together with a 1, modulo 2^16, low 8 bits
HeaderChecksumFormula(buf) == ((0 - (SumBytes(buf, 308, 332) + 25)) % 65536) % 256

\* every byte but those at 0x014E and 0x014F, modulo 2^16
GlobalChecksumFormula(buf) ==
    (SumBytes(buf, 0, 333) + SumBytes(buf, 336, Len(buf) - 1)) % 65536

\* the stored checksums
StoredHeaderChecksum(buf) == At(buf, 333)
StoredGlobalChecksum(buf) == At(buf, 334) * 256 + At(buf, 335)

-----------------------------------------------------------------------------
(* u16 arithmetic.  A value is [ok |-> TRUE, v |-> n] or the panic          *)
(* [ok |-> FALSE, v |-> 0].  With overflow checks compiled in, a result     *)
(* outside 0 .. 65535 panics; without them it wraps modulo 2^16.            *)

Val(n) == [ok |-> TRUE, v |-> n]
Panic == [ok |-> FALSE, v |-> 0]

U16Result(checks, n) ==
    IF n >= 0 /\ n < U16 THEN Val(n)
    ELSE IF checks THEN Panic
    ELSE Val(n % U16)

-----------------------------------------------------------------------------
(* util.rs *)

Cont(b) == b >= 128 /\ b <= 191

\* number of bytes of the UTF-8 sequence that starts bytes (0: no valid sequence starts it),
\* as std's str::from_utf8 validates it: no overlong forms, no surrogates, nothing above U+10FFFF
Utf8Width(bytes) ==
    LET n == Len(bytes)
        b0 == bytes[1]
    IN  IF b0 < 128 THEN 1
        ELSE IF b0 >= 194 /\ b0 <= 223
            THEN IF n >= 2 /\ Cont(bytes[2]) THEN 2 ELSE 0
        ELSE IF b0 >= 224 /\ b0 <= 239
            THEN IF /\ n >= 3
                    /\ \/ b0 = 224 /\ bytes[2] >= 160 /\ bytes[2] <= 191
                       \/ b0 >= 225 /\ b0 <= 236 /\ Cont(bytes[2])
                       \/ b0 = 237 /\ bytes[2] >= 128 /\ bytes[2] <= 159
                       \/ b0 >= 238 /\ Cont(bytes[2])
                    /\ Cont(bytes[3])
                 THEN 3 ELSE 0
        ELSE IF b0 >= 240 /\ b0 <= 244
            THEN IF /\ n >= 4
                    /\ \/ b0 = 240 /\ bytes[2] >= 144 /\ bytes[2] <= 191
                       \/ b0 >= 241 /\ b0 <= 243 /\ Cont(bytes[2])
                       \/ b0 = 244 /\ bytes[2] >= 128 /\ bytes[2] <= 143
                    /\ Cont(bytes[3])
                    /\ Cont(bytes[4])
                 THEN 4 ELSE 0
        ELSE 0

\* the character a valid sequence of w bytes encodes
Utf8Char(bytes, w) ==
    IF w = 1 THEN bytes[1]
    ELSE IF w = 2 THEN (bytes[1] - 192) * 64 + (bytes[2] - 128)
    ELSE IF w = 3 THEN (bytes[1] - 224) * 4096 + (bytes[2] - 128) * 64 + (bytes[3] - 128)
    ELSE (bytes[1] - 240) * 262144 + (bytes[2] - 128) * 4096
             + (bytes[3] - 128) * 64 + (bytes[4] - 128)

\* str::from_utf8: the characters of the text, or an error
RECURSIVE FromUtf8(_)
FromUtf8(bytes) ==
    IF bytes = <<>> THEN [ok |-> TRUE, chars |-> <<>>]
    ELSE LET w == Utf8Width(bytes)
         IN  IF w = 0 THEN [ok |-> FALSE, chars |-> <<>>]
             ELSE LET rest == FromUtf8(SubSeq(bytes, w + 1, Len(bytes)))
                  IN  IF rest.ok
                      THEN [ok |-> TRUE, chars |-> <<Utf8Char(bytes, w)>> \o rest.chars]
                      ELSE rest

\* what a call that returns &str produces: the text, or a panic that ends the process
StrOut(fn, chars) == [fn |-> fn, kind |-> "str", b |-> FALSE, s |-> chars]
BoolOut(fn, b) == [fn |-> fn, kind |-> "bool", b |-> b, s |-> <<>>]
PanicOut(fn) == [fn |-> fn, kind |-> "panic", b |-> FALSE, s |-> <<>>]
NoCall == [fn |-> "none", kind |-> "none", b |-> FALSE, s |-> <<>>]

bytes_to_utf8_string(fn, bytes) ==
    LET r == FromUtf8(bytes)
    IN  IF r.ok THEN StrOut(fn, r.chars) ELSE PanicOut(fn)

\* copies Len(dst) bytes of vec, from address addr on, into dst
get_subarray_of_vector(n, vec, addr) == [i \in 1 .. n |-> At(vec, addr + i - 1)]

-----------------------------------------------------------------------------
(* rom.rs: Rom::from_file *)

\* line 92 as it would read with < for <=, and as a parse that also rejected a wrong
\* header checksum would have it
TooShortOffByOne(buf) == Len(buf) < GLOBAL_CHECKSUM_ADDR + 1
TooShortOrBadChecksum(buf) ==
    \/ Len(buf) <= GLOBAL_CHECKSUM_ADDR + 1
    \/ HeaderChecksumFormula(buf) # At(buf, HEADER_CHECKSUM_ADDR)

\* line 92: the buffer cannot hold a header
TooShort(buf) == Len(buf) <= GLOBAL_CHECKSUM_ADDR + 1

\* the addresses lines 102-122 index
HeaderReads ==
    (ENTRY_POINT_ADDR .. ENTRY_POINT_ADDR + 3)
    \cup (NINTENDO_LOGO_ADDR .. NINTENDO_LOGO_ADDR + 47)
    \cup (TITLE_ADDR .. TITLE_ADDR + 10)
    \cup (MANUFACTURER_CODE_ADDR .. MANUFACTURER_CODE_ADDR + 3)
    \cup {NEW_LICENSEE_CODE_ADDR, NEW_LICENSEE_CODE_ADDR + 1, CGB_FLAG_ADDR, SGB_FLAG_ADDR,
          CARTRIDGE_TYPE_ADDR, ROM_SIZE_ADDR, RAM_SIZE_ADDR, DESTINATION_CODE_ADDR,
          OLD_LICENSEE_CODE_ADDR, MASK_ROM_VERSION_NUMBER_ADDR, HEADER_CHECKSUM_ADDR,
          GLOBAL_CHECKSUM_ADDR, GLOBAL_CHECKSUM_ADDR + 1}

\* line 103 as it would read with ENTRY_POINT_ADDR for NINTENDO_LOGO_ADDR
NintendoLogoFieldAtEntryPoint(buf) == get_subarray_of_vector(48, buf, ENTRY_POINT_ADDR)

\* lines 98 and 103
NintendoLogoField(buf) == get_subarray_of_vector(48, buf, NINTENDO_LOGO_ADDR)

\* line 122 as it would read with the two bytes taken low byte first
GlobalChecksumFieldLittleEndian(buf) ==
    ((At(buf, GLOBAL_CHECKSUM_ADDR + 1) * 256) % U16) + At(buf, GLOBAL_CHECKSUM_ADDR)

\* line 122: ((buf[GLOBAL_CHECKSUM_ADDR] as u16) << 8) | (buf[GLOBAL_CHECKSUM_ADDR + 1] as u16)
GlobalChecksumField(buf) ==
    ((At(buf, GLOBAL_CHECKSUM_ADDR) * 256) % U16) + At(buf, GLOBAL_CHECKSUM_ADDR + 1)

\* lines 97-124: the Rom structure built from the buffer
NewRom(buf) ==
    [ entry_point             |-> get_subarray_of_vector(4, buf, ENTRY_POINT_ADDR),
      nintendo_logo           |-> NintendoLogoField(buf),
      title                   |-> get_subarray_of_vector(11, buf, TITLE_ADDR),
      manufacturer_code       |-> get_subarray_of_vector(4, buf, MANUFACTURER_CODE_ADDR),
      new_licensee_code       |-> <<At(buf, NEW_LICENSEE_CODE_ADDR),
                                    At(buf, NEW_LICENSEE_CODE_ADDR + 1)>>,
      cgb_flag                |-> At(buf, CGB_FLAG_ADDR),
      sgb_flag                |-> At(buf, SGB_FLAG_ADDR),
      cartridge_type          |-> At(buf, CARTRIDGE_TYPE_ADDR),
      rom_size_flag           |-> At(buf, ROM_SIZE_ADDR),
      ram_size_flag           |-> At(buf, RAM_SIZE_ADDR),
      destination_code        |-> At(buf, DESTINATION_CODE_ADDR),
      old_licensee_code       |-> At(buf, OLD_LICENSEE_CODE_ADDR),
      mask_rom_version_number |-> At(buf, MASK_ROM_VERSION_NUMBER_ADDR),
      header_checksum         |-> At(buf, HEADER_CHECKSUM_ADDR),
      global_checksum         |-> GlobalChecksumField(buf),
      rom_data                |-> buf ]

NoRom == [rom_data |-> <<>>]

\* Result<Rom, RomLoadError>, or the panic that ends the process
NotLoaded == [kind |-> "none", rom |-> NoRom]
Ok(rom) == [kind |-> "Ok", rom |-> rom]
Err(e) == [kind |-> e, rom |-> NoRom]
Panicked == [kind |-> "panic", rom |-> NoRom]

\* lines 81-125, on a File that is open; the read at line 85 panics when it fails,
\* and an indexed read past the end of the buffer panics
from_file(f) ==
    IF f.state = "unreadable" THEN Panicked
    ELSE IF TooShort(f.data) THEN Err("FormatError")
    ELSE IF \E a \in HeaderReads : a >= Len(f.data) THEN Panicked
    ELSE Ok(NewRom(f.data))

\* the addresses from_file has indexed when it is left
from_file_reads(f) ==
    IF f.state = "unreadable" \/ TooShort(f.data) THEN {} ELSE HeaderReads

\* lines 69-78: File::open panics when it fails
from_file_path(f) ==
    IF f.state = "missing" THEN Panicked ELSE from_file(f)

from_file_path_reads(f) ==
    IF f.state = "missing" THEN {} ELSE from_file_reads(f)

-----------------------------------------------------------------------------
(* rom.rs: the checksum validators *)

\* lines 146-148: for i in TITLE_ADDR..HEADER_CHECKSUM_ADDR, from address i on, with acc so far
RECURSIVE HeaderChecksumLoop(_, _, _, _)
HeaderChecksumLoop(checks, rom_data, i, acc) ==
    IF i >= HEADER_CHECKSUM_ADDR THEN Val(acc)
    ELSE LET a == U16Result(checks, acc - At(rom_data, i))
         IN  IF ~a.ok THEN Panic
             ELSE LET b == U16Result(checks, a.v - 1)
                  IN  IF ~b.ok THEN Panic
                      ELSE HeaderChecksumLoop(checks, rom_data, i + 1, b.v)

\* lines 143-151
is_header_checksum_valid(checks, rom) ==
    LET r == HeaderChecksumLoop(checks, rom.rom_data, TITLE_ADDR, 0)
    IN  IF r.ok THEN BoolOut("is_header_checksum_valid", (r.v % U8) = rom.header_checksum)
        ELSE PanicOut("is_header_checksum_valid")

\* line 159: one iteration of the loop, at address i
GlobalChecksumStep(checks, rom_data, i, acc) ==
    IF i # GLOBAL_CHECKSUM_ADDR /\ i # (GLOBAL_CHECKSUM_ADDR + 1)
    THEN U16Result(checks, acc + At(rom_data, i))
    ELSE Val(acc)

\* lines 157-161: for (i, x) in rom_data.iter().enumerate(), the iterations at addresses
\* lo .. hi - 1 in order, with acc so far (run as two halves, one after the other)
RECURSIVE GlobalChecksumLoop(_, _, _, _, _)
GlobalChecksumLoop(checks, rom_data, lo, hi, acc) ==
    IF lo >= hi THEN Val(acc)
    ELSE IF hi = lo + 1 THEN GlobalChecksumStep(checks, rom_data, lo, acc)
    ELSE LET mid == (lo + hi) \div 2
             first == GlobalChecksumLoop(checks, rom_data, lo, mid, acc)
         IN  IF ~first.ok THEN Panic
             ELSE GlobalChecksumLoop(checks, rom_data, mid, hi, first.v)

\* lines 154-164
is_global_checksum_valid(checks, rom) ==
    LET r == GlobalChecksumLoop(checks, rom.rom_data, 0, Len(rom.rom_data), 0)
    IN  IF r.ok THEN BoolOut("is_global_checksum_valid", r.v = rom.global_checksum)
        ELSE PanicOut("is_global_checksum_valid")

\* lines 128-140
get_title_string(rom) == bytes_to_utf8_string("get_title_string", rom.title)
get_manufacturer_code_string(rom) ==
    bytes_to_utf8_string("get_manufacturer_code_string", rom.manufacturer_code)
get_new_licensee_code_string(rom) ==
    bytes_to_utf8_string("get_new_licensee_code_string", rom.new_licensee_code)

-----------------------------------------------------------------------------
(* The logo validator.  The sources at hand declare and fill                *)
(* Rom.nintendo_logo but hold neither the validator nor its bitmap; both    *)
(* are taken from the specification and the cartridge format.               *)

REFERENCE_LOGO ==
    << 206, 237, 102, 102, 204,  13,   0,  11,   3, 115,   0, 131,   0,  12,   0,  13,
         0,   8,  17,  31, 136, 137,   0,  14, 220, 204, 110, 230, 221, 221, 217, 153,
       187, 187, 103,  99, 110,  14, 236, 204, 221, 220, 153, 159, 187, 185,  51,  62 >>

\* compares from position i on, and stops at the first byte that differs
RECURSIVE LogoLoop(_, _)
LogoLoop(logo, i) ==
    IF i > Len(REFERENCE_LOGO) THEN TRUE
    ELSE IF logo[i] # REFERENCE_LOGO[i] THEN FALSE
    ELSE LogoLoop(logo, i + 1)

is_logo_valid(rom) == BoolOut("is_logo_valid", LogoLoop(rom.nintendo_logo, 1))

-----------------------------------------------------------------------------
(* main.rs: the stand-alone reader.  It opens and reads the file, slices    *)
(* the header out of the buffer without a length check, decodes the three   *)
(* text fields, computes both checksums and prints.                         *)

NoOutput == [kind |-> "none", header_valid |-> FALSE, global_valid |-> FALSE]
MainPanic == [kind |-> "panic", header_valid |-> FALSE, global_valid |-> FALSE]
Printed(h, g) == [kind |-> "printed", header_valid |-> h, global_valid |-> g]

main(checks, f) ==
    IF f.state # "ok" THEN MainPanic                                     \* lines 16-27
    ELSE IF Len(f.data) <= GLOBAL_CHECKSUM_ADDR + 1 THEN MainPanic       \* lines 30-60: slice or index out of range
    ELSE LET buf == f.data
             title == FromUtf8(get_subarray_of_vector(11, buf, TITLE_ADDR))
             manufacturer_code == FromUtf8(get_subarray_of_vector(4, buf, MANUFACTURER_CODE_ADDR))
             new_licensee_code == FromUtf8(get_subarray_of_vector(2, buf, NEW_LICENSEE_CODE_ADDR))
             h == HeaderChecksumLoop(checks, buf, TITLE_ADDR, 0)         \* lines 63-67
             g == GlobalChecksumLoop(checks, buf, 0, Len(buf), 0)                 \* lines 70-75
         IN  IF ~title.ok \/ ~manufacturer_code.ok \/ ~new_licensee_code.ok THEN MainPanic
             ELSE IF ~h.ok \/ ~g.ok THEN MainPanic
             ELSE Printed(At(buf, HEADER_CHECKSUM_ADDR) = h.v % U8,      \* line 100
                          GlobalChecksumField(buf) = g.v)                \* line 101

-----------------------------------------------------------------------------
(* The ROM images explored *)

Patterns == {"zero", "ff", "ramp", "utf8", "logo"}

\* the byte of pattern p at address a
PatternByte(p, a) ==
    CASE p = "zero" -> 0
      [] p = "ff"   -> 255
      [] p = "ramp" -> a % 256
      [] p = "utf8" -> IF a % 2 = 0 THEN 195 ELSE 169
      [] p = "logo" -> IF a >= 260 /\ a <= 307 THEN REFERENCE_LOGO[a - 259] ELSE 0

Image(p, len) == [i \in 1 .. len |-> PatternByte(p, i - 1)]

ShortLens == {0, 10, 335}
LongLens == 336 .. 336 + MaxExtra

PokeAddrs == {0, 308, 324, 333, 335, 336}
PokeVals == {128, 255}

\* buf with the byte at address a replaced, when buf has such a byte
Poke(buf, a, v) == IF a < Len(buf) THEN [buf EXCEPT ![a + 1] = v] ELSE buf

SetHeaderChecksum(buf) ==
    IF Len(buf) >= 336 THEN [buf EXCEPT ![334] = HeaderChecksumFormula(buf)] ELSE buf

SetGlobalChecksum(buf) ==
    IF Len(buf) >= 336
    THEN LET g == GlobalChecksumFormula(buf)
         IN  [buf EXCEPT ![335] = g \div 256, ![336] = g % 256]
    ELSE buf

\* a pattern, at most one byte of it changed, then either stored checksum made right or
\* left alone
ChecksumImages ==
    LET raw == {Image(p, len) : p \in Patterns, len \in ShortLens \cup LongLens}
        poked == raw \cup {Poke(b, a, v) : b \in raw, a \in PokeAddrs, v \in PokeVals}
        hdr == poked \cup {SetHeaderChecksum(b) : b \in poked}
    IN  hdr \cup {SetGlobalChecksum(b) : b \in hdr}

\* the image that carries the logo, with one byte of the logo changed
LogoImages ==
    {Poke(Image("logo", len), a, v) : len \in LongLens, a \in 260 .. 307, v \in {255}}

Images == ChecksumImages \cup LogoImages

Files ==
    {[state |-> "ok", data |-> d] : d \in Images}
    \cup {[state |-> st, data |-> <<>>] : st \in {"missing", "unreadable"}}

-----------------------------------------------------------------------------
(* The state machine *)

Init ==
    /\ overflow_checks \in BOOLEAN
    /\ file \in Files
    /\ pc = "start"
    /\ load = NotLoaded
    /\ reads = {}
    /\ call = NoCall
    /\ main_out = NoOutput

Loaded(r) ==
    /\ load' = r
    /\ pc' = IF r.kind = "Ok" THEN "loaded" ELSE IF r.kind = "panic" THEN "aborted" ELSE "failed"
    /\ UNCHANGED <<overflow_checks, file, call, main_out>>

FromFilePath ==
    /\ pc = "start"
    /\ reads' = from_file_path_reads(file)
    /\ Loaded(from_file_path(file))

\* from_file is public: a caller that has opened the file itself calls it directly
FromFile ==
    /\ pc = "start"
    /\ file.state # "missing"
    /\ reads' = from_file_reads(file)
    /\ Loaded(from_file(file))

Called(out) ==
    /\ call' = out
    /\ pc' = IF out.kind = "panic" THEN "aborted" ELSE pc
    /\ UNCHANGED <<overflow_checks, file, load, reads, main_out>>

IsHeaderChecksumValid ==
    /\ pc = "loaded"
    /\ Called(is_header_checksum_valid(overflow_checks, load.rom))

IsGlobalChecksumValid ==
    /\ pc = "loaded"
    /\ Called(is_global_checksum_valid(overflow_checks, load.rom))

IsLogoValid ==
    /\ pc = "loaded"
    /\ Called(is_logo_valid(load.rom))

GetTitleString ==
    /\ pc = "loaded"
    /\ Called(get_title_string(load.rom))

GetManufacturerCodeString ==
    /\ pc = "loaded"
    /\ Called(get_manufacturer_code_string(load.rom))

GetNewLicenseeCodeString ==
    /\ pc = "loaded"
    /\ Called(get_new_licensee_code_string(load.rom))

Main ==
    /\ pc = "start"
    /\ main_out' = main(overflow_checks, file)
    /\ pc' = IF main_out'.kind = "panic" THEN "aborted" ELSE "exited"
    /\ UNCHANGED <<overflow_checks, file, load, reads, call>>

Next ==
    \/ FromFilePath
    \/ FromFile
    \/ IsHeaderChecksumValid
    \/ IsGlobalChecksumValid
    \/ IsLogoValid
    \/ GetTitleString
    \/ GetManufacturerCodeString
    \/ GetNewLicenseeCodeString
    \/ Main

Spec == Init /\ [][Next]_vars

-----------------------------------------------------------------------------
(* Properties *)

\* the bytes of buf at addresses lo .. hi - 1, in order
Bytes(buf, lo, hi) == [i \in 1 .. (hi - lo) |-> At(buf, lo + i - 1)]

\* from_file_path or from_file has run on the file (main has not)
LoadAttempted == pc # "start" /\ main_out.kind = "none"

HeaderMatches(buf) == HeaderChecksumFormula(buf) = StoredHeaderChecksum(buf)
GlobalMatches(buf) == GlobalChecksumFormula(buf) = StoredGlobalChecksum(buf)
LogoMatches(buf) == \A i \in 1 .. 48 : At(buf, 259 + i) = REFERENCE_LOGO[i]

\* the UTF-8 bytes of one character, and of a text
Utf8EncodeChar(c) ==
    IF c < 128 THEN <<c>>
    ELSE IF c < 2048 THEN <<192 + (c \div 64), 128 + (c % 64)>>
    ELSE IF c < 65536 THEN <<224 + (c \div 4096), 128 + ((c \div 64) % 64), 128 + (c % 64)>>
    ELSE <<240 + (c \div 262144), 128 + ((c \div 4096) % 64),
           128 + ((c \div 64) % 64), 128 + (c % 64)>>

RECURSIVE Utf8Encode(_)
Utf8Encode(chars) ==
    IF chars = <<>> THEN <<>> ELSE Utf8EncodeChar(Head(chars)) \o Utf8Encode(Tail(chars))

C2_FieldsMatchOffsetTable ==
    (LoadAttempted /\ file.state = "ok" /\ Len(file.data) > 335)
        => /\ load.kind = "Ok"
           /\ LET buf == file.data
                  rom == load.rom
              IN  /\ rom.entry_point = Bytes(buf, 256, 260)
                  /\ rom.nintendo_logo = Bytes(buf, 260, 308)
                  /\ rom.title = Bytes(buf, 308, 319)
                  /\ rom.manufacturer_code = Bytes(buf, 319, 323)
                  /\ rom.cgb_flag = At(buf, 323)
                  /\ rom.new_licensee_code = Bytes(buf, 324, 326)
                  /\ rom.sgb_flag = At(buf, 326)
                  /\ rom.cartridge_type = At(buf, 327)
                  /\ rom.rom_size_flag = At(buf, 328)
                  /\ rom.ram_size_flag = At(buf, 329)
                  /\ rom.destination_code = At(buf, 330)
                  /\ rom.old_licensee_code = At(buf, 331)
                  /\ rom.mask_rom_version_number = At(buf, 332)
                  /\ rom.header_checksum = At(buf, 333)
                  /\ rom.global_checksum = At(buf, 334) * 256 + At(buf, 335)
                  /\ rom.rom_data = buf

\* the ramp image, whose bytes differ from address to address
C2_Witness ==
    /\ load.kind = "Ok"
    /\ load.rom.entry_point = <<0, 1, 2, 3>>
    /\ load.rom.new_licensee_code = <<68, 69>>
    /\ load.rom.global_checksum = 78 * 256 + 79
    /\ Len(load.rom.rom_data) > 336

\* C3: is_header_checksum_valid returns true exactly when the formula over the bytes at
\* 0x0134 .. 0x014C equals the stored byte at 0x014D.
C3_HeaderChecksumIff ==
    call.fn = "is_header_checksum_valid"
        => ((call.kind = "bool" /\ call.b) <=> HeaderMatches(load.rom.rom_data))

\* C4: is_global_checksum_valid returns true exactly when the sum modulo 2^16 of every byte
\* but those at 0x014E and 0x014F equals the stored 16-bit value.
C4_GlobalChecksumIff ==
    call.fn = "is_global_checksum_valid"
        => ((call.kind = "bool" /\ call.b) <=> GlobalMatches(load.rom.rom_data))

\* C5: the two checksum validators have no error path: on every parsed Rom each returns a
\* boolean and never aborts.
C5_ValidatorsReturnBoolean ==
    call.fn \in {"is_header_checksum_valid", "is_global_checksum_valid"}
        => (call.kind = "bool" /\ pc # "aborted")

\* C6: decoding title, manufacturer_code or new_licensee_code yields a TextDecodeError value,
\* without aborting, when the bytes are not valid text, and otherwise the text whose bytes
\* are exactly the field's bytes.
C6_TextDecodeIsRecoverable ==
    LET field == CASE call.fn = "get_title_string" -> load.rom.title
                   [] call.fn = "get_manufacturer_code_string" -> load.rom.manufacturer_code
                   [] call.fn = "get_new_licensee_code_string" -> load.rom.new_licensee_code
                   [] OTHER -> <<>>
    IN  call.fn \in {"get_title_string", "get_manufacturer_code_string",
                     "get_new_licensee_code_string"}
            => IF FromUtf8(field).ok
               THEN call.kind = "str" /\ Utf8Encode(call.s) = field
               ELSE call.kind = "TextDecodeError" /\ pc # "aborted"

\* C7: every failure while loading ends in a returned IoError, FormatError or
\* TextDecodeError; no load path terminates the process.
C7_LoadFailureIsReturned ==
    LoadAttempted
        => /\ load.kind \in {"Ok", "IoError", "FormatError", "TextDecodeError"}
           /\ file.state # "ok" => load.kind = "IoError"

C9_RoundTrip ==
    (LoadAttempted /\ file.state = "ok" /\ Len(file.data) >= 336 /\ HeaderMatches(file.data))
        => /\ load.kind = "Ok"
           /\ load.rom.title = Bytes(file.data, 308, 319)
           /\ load.rom.header_checksum = At(file.data, 333)
           /\ call.fn = "is_header_checksum_valid" => (call.kind = "bool" /\ call.b)

\* C10: is_logo_valid is true exactly when the 48 bytes at 0x0104 .. 0x0133 equal the
\* reference bitmap position by position; a logo of 48 zero bytes is invalid.
C10_LogoValidIff ==
    call.fn = "is_logo_valid"
        => /\ call.kind = "bool"
           /\ call.b <=> LogoMatches(file.data)
           /\ (\A a \in 260 .. 307 : At(file.data, a) = 0) => ~call.b

\* a matching logo with exactly one byte changed
C10_Witness ==
    /\ call.fn = "is_logo_valid" /\ call.kind = "bool" /\ ~call.b
    /\ Cardinality({i \in 1 .. 48 : At(file.data, 259 + i) # REFERENCE_LOGO[i]}) = 1

====
